---- MODULE Spec2Model ----
(***************************************************************************)
(* Model of paperless-ngx-ocr2: one invocation of the command line tool.   *)
(* main -> Cli::execute -> process_ocr_command -> FilesClient::upload_file *)
(* -> OCRClient::process_ocr -> output and exit code.                      *)
(*                                                                         *)
(* Text is modelled as a sequence of tokens (a token is a piece of text    *)
(* that is never split); "contains" looks for a token.                     *)
(***************************************************************************)
EXTENDS Integers, Sequences, FiniteSets, TLC

\* ---------------------------------------------------------------- bounds
\* largest number of pages in an OCR response the server sends
MaxPages == 2

\* ------------------------------------------------------- program constants
\* a variant with one more retry
MAX_RETRIES_one_more == 3 + 1

MAX_RETRIES == 3
BASE_DELAY_MS == 1000
MiB == 1024 * 1024
STREAMING_THRESHOLD == 50 * MiB
MAX_SIZE_BYTES == 100 * MiB
\* chrono::Utc::now().timestamp() at the time the receipt is validated
NowTs == 100000

\* --------------------------------------------------------------- helpers
None == [some |-> FALSE]
Some(x) == [some |-> TRUE, v |-> x]

Ok(x) == [tag |-> "ok", val |-> x]
Err(kind, msg) == [tag |-> "err", err |-> [kind |-> kind, msg |-> msg]]
Pending == [tag |-> "none"]
IsOk(r) == r.tag = "ok"
IsErr(r) == r.tag = "err"

\* str::contains at token granularity
Contains(s, tok) == \E i \in DOMAIN s : s[i] = tok

\* 2_u64.pow(n)
RECURSIVE Pow2(_)
Pow2(n) == IF n = 0 THEN 1 ELSE 2 * Pow2(n - 1)

Last(s) == s[Len(s)]

\* ------------------------------------------------------- error taxonomy
\* a variant that gives configuration errors the code of API errors
exit_code_config_as_api(e) ==
    CASE e.kind = "Validation" -> 2
      [] e.kind = "Io" -> 3
      [] e.kind \in {"Config", "Api", "Network", "Internal"} -> 5

exit_code(e) ==
    CASE e.kind = "Validation" -> 2
      [] e.kind = "Io" -> 3
      [] e.kind = "Config" -> 4
      [] e.kind \in {"Api", "Network", "Internal"} -> 5

error_type(e) ==
    CASE e.kind = "Validation" -> "validation"
      [] e.kind = "Io" -> "file_io"
      [] e.kind = "Config" -> "api"
      [] e.kind = "Api" -> "api"
      [] e.kind = "Network" -> "network"
      [] e.kind = "Internal" -> "internal"

user_message(e) ==
    CASE e.kind = "Validation" -> <<"Validation error: ">> \o e.msg
      [] e.kind = "Io" -> <<"File error: ">> \o e.msg
      [] e.kind = "Config" -> <<"Configuration error: ">> \o e.msg
      [] e.kind = "Api" -> <<"API error: ">> \o e.msg
      [] e.kind = "Network" -> <<"Network error: ">> \o e.msg
      [] e.kind = "Internal" -> <<"Internal error: ">> \o e.msg

\* the Display implementation derived by thiserror
to_string(e) ==
    CASE e.kind = "Validation" -> <<"Validation error: ">> \o e.msg
      [] e.kind = "Io" -> <<"I/O error: ">> \o e.msg
      [] e.kind = "Config" -> <<"Configuration error: ">> \o e.msg
      [] e.kind = "Api" -> <<"API error: ">> \o e.msg
      [] e.kind = "Network" -> <<"Network error: ">> \o e.msg
      [] e.kind = "Internal" -> <<"Internal error: ">> \o e.msg

from_http_status(status, message) ==
    CASE status >= 400 /\ status <= 499 ->
            [kind |-> "Validation", msg |-> <<"Client error (", ToString(status), "): ">> \o message]
      [] status >= 500 /\ status <= 599 ->
            [kind |-> "Api", msg |-> <<"Server error (", ToString(status), "): ">> \o message]
      [] OTHER ->
            [kind |-> "Internal", msg |-> <<"Unexpected HTTP status (", ToString(status), "): ">> \o message]

\* -------------------------------------------------------- configuration
RetryPolicy_default ==
    [max_retries |-> 3, base_delay_ms |-> 1000, max_delay_ms |-> 10000,
     exponential_backoff |-> TRUE, jitter_percent |-> 10]

DefaultUrl == <<"https", "://", "api.mistral.ai">>

Config_default ==
    [api_key |-> <<>>, api_base_url |-> DefaultUrl, timeout_seconds |-> 30,
     max_file_size_mb |-> 100, log_level |-> "info", retry_policy |-> RetryPolicy_default]

\* url::Url::parse on the sample URLs: scheme, "://", host
Url_parse(u) ==
    IF Len(u) >= 3 /\ u[2] = "://" THEN Some([scheme |-> u[1], host |-> u[3]]) ELSE None

RetryPolicy_validate(p) ==
    IF p.max_retries > 10 THEN Err("Config", <<"Max retries cannot exceed 10">>)
    ELSE IF p.base_delay_ms = 0 THEN Err("Config", <<"Base delay must be greater than 0">>)
    ELSE IF p.max_delay_ms < p.base_delay_ms THEN Err("Config", <<"Max delay must be >= base delay">>)
    ELSE IF p.jitter_percent < 0 \/ p.jitter_percent > 100
         THEN Err("Config", <<"Jitter factor must be between 0.0 and 1.0">>)
    ELSE Ok(TRUE)

Config_validate(c) ==
    IF c.api_key = <<>> THEN Err("Config", <<"API key must not be empty">>)
    ELSE IF ~Url_parse(c.api_base_url).some THEN Err("Config", <<"API base URL must be a valid URL">>)
    ELSE IF c.timeout_seconds < 1 \/ c.timeout_seconds > 300
         THEN Err("Config", <<"Timeout must be between 1 and 300 seconds">>)
    ELSE IF c.max_file_size_mb < 1 \/ c.max_file_size_mb > 100
         THEN Err("Config", <<"Max file size must be between 1 and 100 MB">>)
    ELSE IF c.log_level \notin {"error", "warn", "info", "debug", "trace"}
         THEN Err("Config", <<"Log level must be one of: error, warn, info, debug, trace">>)
    ELSE RetryPolicy_validate(c.retry_policy)

\* Config::apply_env_overrides; e is the process environment
apply_env_overrides(c, e) ==
    LET c1 == IF e.API_KEY.some THEN [c EXCEPT !.api_key = e.API_KEY.v] ELSE c
        c2 == IF e.API_BASE_URL.some THEN [c1 EXCEPT !.api_base_url = e.API_BASE_URL.v] ELSE c1
        c3 == IF e.TIMEOUT.some THEN [c2 EXCEPT !.timeout_seconds = e.TIMEOUT.v] ELSE c2
        c4 == IF e.MAX_FILE_SIZE.some THEN [c3 EXCEPT !.max_file_size_mb = e.MAX_FILE_SIZE.v] ELSE c3
        c5 == IF e.LOG_LEVEL.some THEN [c4 EXCEPT !.log_level = e.LOG_LEVEL.v] ELSE c4
    IN  c5

\* Config::load_from_path; f is what the path holds:
\* [exists |-> FALSE], [exists |-> TRUE, toml |-> None] (does not parse as a
\* Config) or [exists |-> TRUE, toml |-> Some(config)]
load_from_path(f, e) ==
    IF ~f.exists THEN Err("Config", <<"Config file not found: ", "custom.toml">>)
    ELSE IF ~f.toml.some THEN Err("Config", <<"Failed to parse config file: ", "TOML parse error">>)
    ELSE LET c == apply_env_overrides(f.toml.v, e)
             v == Config_validate(c)
         IN  IF IsErr(v) THEN v ELSE Ok(c)

\* Config::load_without_validation; f is what the default search path holds
load_without_validation(f, e) ==
    LET loaded == IF f.exists /\ f.toml.some THEN f.toml.v ELSE Config_default
    IN  Ok(apply_env_overrides(loaded, e))

\* ----------------------------------------------------------- credentials
APICredentials_validate(c) ==
    IF c.api_key = <<>> THEN Err("Config", <<"API key must not be empty">>)
    ELSE IF Contains(c.api_key, " ") THEN Err("Config", <<"API key must not contain whitespace">>)
    ELSE IF ~Url_parse(c.api_base_url).some THEN Err("Config", <<"API base URL must be a valid URL">>)
    ELSE IF Url_parse(c.api_base_url).v.scheme # "https"
         THEN Err("Config", <<"API base URL must use HTTPS">>)
    ELSE Ok(TRUE)

APICredentials_new(api_key, api_base_url) ==
    LET c == [api_key |-> api_key, api_base_url |-> api_base_url, is_valid |-> FALSE]
        v == APICredentials_validate(c)
    IN  IF IsErr(v) THEN v ELSE Ok([c EXCEPT !.is_valid = TRUE])

get_auth_header(c) == <<"Bearer ">> \o c.api_key

\* AuthHandler::get_multipart_headers / get_auth_headers: HeaderValue::from_str
\* refuses a value with a control character
get_headers(c, json) ==
    IF Contains(get_auth_header(c), "\\x01")
    THEN Err("Config", <<"Invalid API key format: ", "failed to parse header value">>)
    ELSE Ok([authorization |-> get_auth_header(c),
             content_type |-> IF json THEN Some("application/json") ELSE None,
             accept_encoding |-> "gzip, deflate, br"])

\* ------------------------------------------------------------------ CLI
\* clap: a flag wins over its env variable, which wins over the default_value
Cli_parse(a, e) ==
    [file |-> a.file,
     api_key |-> IF a.api_key.some THEN a.api_key ELSE e.API_KEY,
     api_base_url |-> IF a.api_base_url.some THEN a.api_base_url
                      ELSE IF e.API_BASE_URL.some THEN e.API_BASE_URL
                      ELSE Some(DefaultUrl),
     json |-> a.json,
     verbose |-> a.verbose,
     config |-> a.config,
     completions |-> a.completions]

\* std::env::args().len() == 1
NoArguments(a) ==
    /\ ~a.file.some /\ ~a.api_key.some /\ ~a.api_base_url.some
    /\ ~a.json /\ ~a.verbose /\ ~a.config.some /\ ~a.completions.some

Cli_validate(c) ==
    IF c.completions.some THEN Ok(TRUE)
    ELSE IF ~c.file.some THEN Err("Validation", <<"File path is required for OCR processing">>)
    ELSE IF c.file.v = <<>> THEN Err("Validation", <<"File path cannot be empty">>)
    ELSE IF c.api_key.some /\ c.api_key.v = <<>> THEN Err("Config", <<"API key cannot be empty">>)
    ELSE IF c.api_base_url.some /\ c.api_base_url.v = <<>>
         THEN Err("Config", <<"API base URL cannot be empty">>)
    ELSE Ok(TRUE)

generate_completion_script(shell) ==
    IF shell \in {"bash", "zsh", "fish", "powershell", "ps1"}
    THEN Ok(<<"completion script for ", shell>>)
    ELSE Err("Config", <<"Unsupported shell: ", shell, ". Supported shells: bash, zsh, fish, powershell">>)

\* ----------------------------------------------------------------- file
\* a path is <<stem, extension>> or <<stem>>
ExtTokens == {".pdf", ".png", ".jpg", ".jpeg", ".txt"}
extension(path) == IF Len(path) > 1 /\ Last(path) \in ExtTokens THEN Some(Last(path)) ELSE None

\* MimeGuess::from_path(path).first_or_octet_stream()
mime_guess(path) ==
    LET x == extension(path) IN
    IF ~x.some THEN "application/octet-stream"
    ELSE CASE x.v = ".pdf" -> "application/pdf"
           [] x.v = ".png" -> "image/png"
           [] x.v \in {".jpg", ".jpeg"} -> "image/jpeg"
           [] OTHER -> "text/plain"

\* Path::file_name: the path without its directory components
DirTokens == {"docs/"}
get_filename(path) == SelectSeq(path, LAMBDA t : t \notin DirTokens)

EncryptionMarkers == {"/Encrypt", "/P -", "/U ", "/O ", "/Filter/Standard"}

\* f is the file on disk: head = its first (at most 8) bytes, markers = the
\* marker texts that occur in its first 8 KiB
check_pdf_password_protection(f) ==
    IF f.markers \cap EncryptionMarkers # {}
    THEN Err("Validation", <<"Password-protected PDF detected. Please provide an unprotected PDF file.">>)
    ELSE Ok(TRUE)

validate_file_content(fu, f) ==
    LET bytes_read == Len(f.head) IN
    IF bytes_read < 4 THEN Err("Validation", <<"File too small to determine format">>)
    ELSE IF SubSeq(f.head, 1, 4) = <<37, 80, 68, 70>> THEN check_pdf_password_protection(f)
    ELSE IF SubSeq(f.head, 1, 4) = <<137, 80, 78, 71>> THEN Ok(TRUE)
    ELSE IF SubSeq(f.head, 1, 3) = <<255, 216, 255>> THEN Ok(TRUE)
    ELSE Err("Validation", <<"File does not appear to be a valid PDF, PNG, or JPEG file: ">> \o fu.file_path)

validate_file(fu, f) ==
    IF ~f.exists THEN Err("Validation", <<"File does not exist: ">> \o fu.file_path)
    ELSE IF fu.file_size > MAX_SIZE_BYTES
         THEN Err("Validation", <<"File size exceeds maximum allowed size (100 MB)">>)
    ELSE IF fu.mime_type \notin {"application/pdf", "image/png", "image/jpeg", "image/jpg"}
         THEN Err("Validation", <<"Unsupported file format: ", fu.mime_type, ". Supported: pdf, png, jpg, jpeg">>)
    ELSE validate_file_content(fu, f)

\* FileUpload::new
FileUpload_new(path, f) ==
    IF ~f.exists THEN Err("Io", <<"File not found: ">> \o path)
    ELSE LET fu == [file_path |-> path, file_size |-> f.size, mime_type |-> mime_guess(path),
                    is_valid |-> FALSE]
             v == validate_file(fu, f)
         IN  IF IsErr(v) THEN v ELSE Ok([fu EXCEPT !.is_valid = TRUE])

\* ------------------------------------------------------- upload receipt
AlnumTokens == {"f", "1", "2", "a", "Z"}

\* a list of statuses that leaves out "error"
valid_statuses_without_error == {"uploaded", "processing", "processed"}

valid_statuses == {"uploaded", "processing", "processed", "error"}

FileUploadResponse_validate(r) ==
    IF r.id = <<>> THEN Err("Validation", <<"File ID cannot be empty">>)
    ELSE IF ~(\A i \in DOMAIN r.id : r.id[i] \in AlnumTokens \cup {"-", "_"})
         THEN Err("Validation", <<"Invalid file ID format: '">> \o r.id \o <<"' contains invalid characters">>)
    ELSE IF r.object # "file" THEN Err("Validation", <<"Object must be 'file', got '", r.object, "'">>)
    ELSE IF r.bytes <= 0 THEN Err("Validation", <<"File size must be positive">>)
    ELSE IF r.created_at <= 0 THEN Err("Validation", <<"Created timestamp must be positive">>)
    ELSE IF r.created_at > NowTs + 3600
         THEN Err("Validation", <<"Created timestamp is too far in the future: ", ToString(r.created_at)>>)
    ELSE IF r.filename = <<>> THEN Err("Validation", <<"Filename cannot be empty">>)
    ELSE IF Contains(r.filename, "/") \/ Contains(r.filename, "\\")
         THEN Err("Validation", <<"Filename cannot contain path separators: '">> \o r.filename \o <<"'">>)
    ELSE IF r.purpose # "ocr" THEN Err("Validation", <<"Purpose must be 'ocr', got '", r.purpose, "'">>)
    ELSE IF r.status.some /\ r.status.v \notin valid_statuses
         THEN Err("Validation", <<"Invalid status '", r.status.v,
                                  "', must be one of: uploaded, processing, processed, error">>)
    ELSE Ok(TRUE)

\* ----------------------------------------------------------- OCR request
\* a variant that asks for a fixed file
OCRRequest_new_fixed_id(file_id) ==
    [model |-> "mistral-ocr-latest", document |-> [type |-> "file", file_id |-> <<"f", "1">>]]

OCRRequest_new(file_id) ==
    [model |-> "mistral-ocr-latest", document |-> [type |-> "file", file_id |-> file_id]]

OCRRequest_validate(q) ==
    IF q.document.file_id = <<>> THEN Err("Validation", <<"File ID cannot be empty">>)
    ELSE IF q.model # "mistral-ocr-latest" THEN Err("Validation", <<"Invalid model for OCR processing">>)
    ELSE IF q.document.type # "file" THEN Err("Validation", <<"Invalid document type for OCR processing">>)
    ELSE Ok(TRUE)

\* ---------------------------------------------------------- OCR response
\* pages.iter().map(markdown).collect().join("\n\n")
\* a variant that joins with a single newline
RECURSIVE JoinPages_single_newline(_)
JoinPages_single_newline(pages) ==
    IF pages = <<>> THEN <<>>
    ELSE IF Len(pages) = 1 THEN pages[1].markdown
    ELSE pages[1].markdown \o <<"\n">> \o JoinPages_single_newline(Tail(pages))

RECURSIVE JoinPages(_)
JoinPages(pages) ==
    IF pages = <<>> THEN <<>>
    ELSE IF Len(pages) = 1 THEN pages[1].markdown
    ELSE pages[1].markdown \o <<"\n\n">> \o JoinPages(Tail(pages))

get_extracted_text(r) == JoinPages(r.pages)

\* a variant that checks the page indexes only
FirstBadPage_index_only(pages) ==
    LET bad == {i \in DOMAIN pages : pages[i].index # i - 1}
    IN  IF bad = {} THEN 0 ELSE CHOOSE i \in bad : \A j \in bad : i <= j

\* the first page, in order, that fails a per-page check (0 if none);
\* page ordinals are 0-based in the code, sequence positions 1-based here
FirstBadPage(pages) ==
    LET bad == {i \in DOMAIN pages :
                   \/ pages[i].index # i - 1
                   \/ pages[i].dimensions.width <= 0
                   \/ pages[i].dimensions.height <= 0}
    IN  IF bad = {} THEN 0 ELSE CHOOSE i \in bad : \A j \in bad : i <= j

OCRResponse_validate(r) ==
    LET b == FirstBadPage(r.pages) IN
    IF r.model = <<>> THEN Err("Validation", <<"Response model cannot be empty">>)
    ELSE IF r.model[1] # "mistral-"
         THEN Err("Validation", <<"Invalid model name format: expected 'mistral-*', got '">> \o r.model \o <<"'">>)
    ELSE IF r.pages = <<>> THEN Err("Validation", <<"Response must contain at least one page">>)
    ELSE IF b # 0 /\ r.pages[b].index # b - 1
         THEN Err("Validation", <<"Page index mismatch: expected ", ToString(b - 1), ", got ",
                                  ToString(r.pages[b].index)>>)
    ELSE IF b # 0
         THEN Err("Validation", <<"Invalid page dimensions: width=", ToString(r.pages[b].dimensions.width),
                                  ", height=", ToString(r.pages[b].dimensions.height)>>)
    ELSE IF r.usage_info.pages_processed # Len(r.pages)
         THEN Err("Validation", <<"Usage info pages_processed (", ToString(r.usage_info.pages_processed),
                                  ") doesn't match actual pages (", ToString(Len(r.pages)), ")">>)
    ELSE IF r.usage_info.doc_size_bytes <= 0
         THEN Err("Validation", <<"Invalid document size in usage info: ",
                                  ToString(r.usage_info.doc_size_bytes), " bytes">>)
    ELSE Ok(TRUE)

\* ------------------------------------------------------------ transport
is_success(status) == status >= 200 /\ status <= 299

\* a variant that hands every response to the caller as it is
handle_response_passes_all(response) == Ok(response)

\* response.text(): the body text, or a transport error while reading it
\* MistralClient::handle_response
handle_response(response) ==
    IF is_success(response.status) THEN Ok(response)
    ELSE LET b == response.body
             error_text == IF b.readable THEN b.raw ELSE <<"Unknown error">>
         IN  IF b.readable /\ b.json.some /\ "error" \in DOMAIN b.json.v
             THEN [tag |-> "err", err |-> from_http_status(response.status, b.json.v.error)]
             ELSE [tag |-> "err", err |-> from_http_status(response.status, error_text)]

\* the request producer of upload_file, upload_file_streaming and process_ocr:
\* send() and then handle_response; o is what the network does on this attempt
request_fn(o) ==
    IF o.kind = "transport_error" THEN Err("Network", o.msg)
    ELSE handle_response([status |-> o.status, body |-> o.body])

\* a variant that does not look at the kind of the error
IsRateLimitError_any_kind(e) ==
    Contains(e.msg, "429") \/ Contains(e.msg, "rate limit")

IsRateLimitError(e) ==
    e.kind = "Api" /\ (Contains(e.msg, "429") \/ Contains(e.msg, "rate limit"))

\* a variant that retries a rate limit on the last iteration too
execute_with_retry_step_no_last(attempt, r) ==
    IF IsOk(r)
    THEN IF r.val.status = 429
         THEN [continue |-> TRUE, delay_ms |-> BASE_DELAY_MS * Pow2(attempt), result |-> Pending]
         ELSE [continue |-> FALSE, delay_ms |-> 0, result |-> r]
    ELSE IF IsRateLimitError(r.err)
         THEN [continue |-> TRUE, delay_ms |-> BASE_DELAY_MS * Pow2(attempt), result |-> Pending]
         ELSE [continue |-> FALSE, delay_ms |-> 0, result |-> r]

\* one iteration of the loop of MistralClient::execute_with_retry:
\* attempt is the loop variable, r the result of request_fn().await
execute_with_retry_step(attempt, r) ==
    IF IsOk(r)
    THEN IF r.val.status = 429
         THEN IF attempt < MAX_RETRIES
              THEN [continue |-> TRUE, delay_ms |-> BASE_DELAY_MS * Pow2(attempt), result |-> Pending]
              ELSE [continue |-> FALSE, delay_ms |-> 0,
                    result |-> [tag |-> "err",
                                err |-> from_http_status(429, <<"Rate limit exceeded after 3 retries">>)]]
         ELSE [continue |-> FALSE, delay_ms |-> 0, result |-> r]
    ELSE IF IsRateLimitError(r.err) /\ attempt < MAX_RETRIES
         THEN [continue |-> TRUE, delay_ms |-> BASE_DELAY_MS * Pow2(attempt), result |-> Pending]
         ELSE [continue |-> FALSE, delay_ms |-> 0, result |-> r]

\* ------------------------------------------------------------ OCR result
FileUploadRequest_new(file_len, filename) ==
    [file_len |-> file_len, filename |-> filename, purpose |-> "ocr"]

FileUploadRequest_validate(q) ==
    IF q.file_len = 0 THEN Err("Validation", <<"File data cannot be empty">>)
    ELSE IF q.filename = <<>> THEN Err("Validation", <<"Filename cannot be empty">>)
    ELSE IF q.purpose # "ocr" THEN Err("Validation", <<"Purpose must be 'ocr'">>)
    ELSE Ok(TRUE)

OCRResult_from_extracted_text(text, file_id, model, file_name, file_size) ==
    [extracted_text |-> text, file_id |-> file_id, model |-> model,
     file_name |-> file_name, file_size |-> file_size]

\* extracted_text.trim().is_empty()
WhitespaceTokens == {" ", "\n", "\n\n"}
is_empty_text(r) == \A i \in DOMAIN r.extracted_text : r.extracted_text[i] \in WhitespaceTokens

to_human_readable(r) ==
    IF is_empty_text(r)
    THEN [fmt |-> "text",
          text |-> <<"Warning: No text could be extracted from ">> \o r.file_name
                   \o <<" (", ToString(r.file_size), " bytes). The file may contain only images without text, or the text may not be readable.">>]
    ELSE [fmt |-> "text",
          text |-> <<"Extracted text from ">> \o r.file_name
                   \o <<" (", ToString(r.file_size), " bytes):\n\n">> \o r.extracted_text]

OCRResult_to_json_output(r) ==
    [fmt |-> "json",
     doc |-> [success |-> TRUE,
              data |-> [extracted_text |-> r.extracted_text, file_name |-> r.file_name,
                        file_size |-> r.file_size, processing_time_ms |-> 2000,
                        confidence |-> None]]]

\* the CLIOutput that Cli::execute prints for an error in JSON mode
CLIOutput_error(e) ==
    [fmt |-> "json",
     doc |-> [success |-> FALSE,
              error |-> [type |-> error_type(e), message |-> user_message(e),
                         details |-> Some(to_string(e))]]]

\* ================================================================ inputs
\* sample API keys
K_good == <<"sk-", "test123456789">>
K_env == <<"sk-", "envkey">>
K_file == <<"sk-", "filekey">>
K_space == <<"sk-", " ", "x">>
K_ctl == <<"sk-", "\\x01">>

U_http == <<"http", "://", "api.mistral.ai">>
U_file == <<"https", "://", "proxy.mistral.example">>
U_bad == <<"not a url">>

\* sample files on disk
F_missing == [exists |-> FALSE, size |-> 0, head |-> <<>>, markers |-> {}]
F_tiny == [exists |-> TRUE, size |-> 3, head |-> <<37, 80, 68>>, markers |-> {}]
F_pdf == [exists |-> TRUE, size |-> 12, head |-> <<37, 80, 68, 70, 45, 49, 46, 52>>, markers |-> {}]
F_pdf_encrypted == [F_pdf EXCEPT !.markers = {"/Encrypt"}]
F_png == [exists |-> TRUE, size |-> 12, head |-> <<137, 80, 78, 71, 13, 10, 26, 10>>, markers |-> {}]
F_jpeg == [exists |-> TRUE, size |-> 12, head |-> <<255, 216, 255, 224, 0, 16, 74, 70>>, markers |-> {}]
F_text == [exists |-> TRUE, size |-> 12, head |-> <<72, 101, 108, 108, 111, 32, 119, 111>>, markers |-> {}]
F_pdf_2mb == [F_pdf EXCEPT !.size = 2 * MiB]
F_pdf_large == [F_pdf EXCEPT !.size = STREAMING_THRESHOLD + 1]
F_pdf_huge == [F_pdf EXCEPT !.size = MAX_SIZE_BYTES + 1]

P_pdf == <<"doc", ".pdf">>
P_png == <<"docs/", "scan", ".png">>
P_jpg == <<"photo", ".jpg">>
P_txt == <<"notes", ".txt">>
P_noext == <<"README">>

\* --file and what the path holds
FileScenarios ==
    {<<None, F_missing>>, <<Some(<<>>), F_missing>>,
     <<Some(P_pdf), F_missing>>, <<Some(P_pdf), F_tiny>>, <<Some(P_pdf), F_pdf>>,
     <<Some(P_pdf), F_pdf_encrypted>>, <<Some(P_pdf), F_png>>, <<Some(P_pdf), F_text>>,
     <<Some(P_pdf), F_pdf_2mb>>, <<Some(P_pdf), F_pdf_large>>, <<Some(P_pdf), F_pdf_huge>>,
     <<Some(P_png), F_png>>, <<Some(P_jpg), F_jpeg>>,
     <<Some(P_txt), F_text>>, <<Some(P_noext), F_pdf>>}

\* configuration files
T_absent == [exists |-> FALSE, toml |-> None]
T_garbage == [exists |-> TRUE, toml |-> None]
T_good == [exists |-> TRUE,
           toml |-> Some([Config_default EXCEPT !.api_key = K_file, !.api_base_url = U_file,
                                                !.max_file_size_mb = 1,
                                                !.retry_policy.max_retries = 5])]
T_bad_timeout == [exists |-> TRUE,
                  toml |-> Some([Config_default EXCEPT !.api_key = K_file, !.timeout_seconds = 0])]

\* a file that sets the delays of the retry policy
T_slow_retry == [exists |-> TRUE,
                 toml |-> Some([T_good.toml.v EXCEPT !.retry_policy.base_delay_ms = 5000,
                                                     !.retry_policy.max_delay_ms = 6000])]

\* --config, what that path holds, what the default search path holds
ConfigScenarios ==
    {<<None, T_absent, T_absent>>, <<None, T_absent, T_good>>, <<None, T_absent, T_garbage>>,
     <<None, T_absent, T_slow_retry>>,
     <<Some("custom.toml"), T_absent, T_absent>>, <<Some("custom.toml"), T_garbage, T_absent>>,
     <<Some("custom.toml"), T_good, T_absent>>, <<Some("custom.toml"), T_bad_timeout, T_absent>>}

\* --api-key and PAPERLESS_OCR_API_KEY
KeyScenarios ==
    {<<None, None>>, <<None, Some(K_env)>>, <<Some(K_good), None>>, <<Some(K_good), Some(K_env)>>,
     <<Some(<<>>), None>>, <<Some(K_space), None>>, <<Some(K_ctl), None>>}

\* --api-base-url and PAPERLESS_OCR_API_BASE_URL
UrlScenarios == {<<None, None>>, <<Some(U_http), None>>, <<Some(U_bad), None>>, <<Some(<<>>), None>>}

NoEnv == [API_KEY |-> None, API_BASE_URL |-> None, TIMEOUT |-> None, MAX_FILE_SIZE |-> None,
          LOG_LEVEL |-> None]
NoArgs == [file |-> None, api_key |-> None, api_base_url |-> None, json |-> FALSE,
           verbose |-> FALSE, config |-> None, completions |-> None]

\* what the server may answer
Statuses == {200, 304, 400, 401, 403, 404, 429, 500, 502, 503, 504}

JsonError(msg) == [readable |-> TRUE, raw |-> <<"{\"error\":\"">> \o msg \o <<"\"}">>,
                   json |-> Some([error |-> msg])]
TextBody(t) == [readable |-> TRUE, raw |-> t, json |-> None]
JsonBody(raw, v) == [readable |-> TRUE, raw |-> raw, json |-> Some(v)]
Unreadable == [readable |-> FALSE, raw |-> <<>>, json |-> None]

ErrorBodies == {JsonError(<<"boom">>), JsonError(<<"rate limit", " exceeded">>), TextBody(<<"Bad Gateway">>)}

R_ok == [id |-> <<"f", "1">>, object |-> "file", bytes |-> 12, created_at |-> NowTs,
         filename |-> <<"doc", ".pdf">>, purpose |-> "ocr", status |-> None]
ValidReceipts ==
    {R_ok, [R_ok EXCEPT !.id = <<"f", "-", "2">>, !.status = Some("error")]}
InvalidReceipts ==
    {[R_ok EXCEPT !.id = <<>>], [R_ok EXCEPT !.id = <<"f", "/">>], [R_ok EXCEPT !.object = "list"],
     [R_ok EXCEPT !.bytes = 0], [R_ok EXCEPT !.created_at = 0],
     [R_ok EXCEPT !.created_at = NowTs + 3601], [R_ok EXCEPT !.filename = <<>>],
     [R_ok EXCEPT !.filename = <<"docs", "/", "doc.pdf">>], [R_ok EXCEPT !.purpose = "fine-tune"],
     [R_ok EXCEPT !.status = Some("deleted")]}

UploadBodies ==
    {JsonBody(<<"{receipt}">>, r) : r \in ValidReceipts \cup InvalidReceipts}
    \cup {TextBody(<<"<html>">>), Unreadable}

Page(i, md, w, h) ==
    [index |-> i, markdown |-> md, images |-> <<>>, dimensions |-> [dpi |-> 200, height |-> h, width |-> w]]
Markdowns == <<<<"hello">>, <<"world">>, <<"again">>, <<"more">>>>
\* a valid response of n pages
O_ok(n) == [pages |-> [i \in 1..n |-> Page(i - 1, Markdowns[i], 1700, 2200)],
            model |-> <<"mistral-", "ocr-latest">>, document_annotation |-> None,
            usage_info |-> [pages_processed |-> n, doc_size_bytes |-> 12]]
ValidOcrResponses ==
    {O_ok(n) : n \in 1..MaxPages} \cup {[O_ok(1) EXCEPT !.pages[1].markdown = <<>>]}
InvalidOcrResponses ==
    {[O_ok(1) EXCEPT !.model = <<>>], [O_ok(1) EXCEPT !.model = <<"gpt-", "4">>],
     [O_ok(1) EXCEPT !.pages = <<>>, !.usage_info.pages_processed = 0],
     [O_ok(1) EXCEPT !.pages[1].index = 1],
     [O_ok(MaxPages) EXCEPT !.pages[MaxPages].index = 0],
     [O_ok(1) EXCEPT !.pages[1].dimensions.width = 0],
     [O_ok(MaxPages) EXCEPT !.pages[MaxPages].dimensions.height = 0],
     [O_ok(MaxPages) EXCEPT !.usage_info.pages_processed = 1],
     [O_ok(1) EXCEPT !.usage_info.doc_size_bytes = 0]}

OcrBodies ==
    {JsonBody(<<"{ocr}">>, r) : r \in ValidOcrResponses \cup InvalidOcrResponses}
    \cup {TextBody(<<"<html>">>), Unreadable}

\* everything one HTTP attempt can meet; a server may echo the bearer secret it
\* was sent in the text of its 401
ServerOutcomes(step, request) ==
    {[kind |-> "transport_error", msg |-> <<"error sending request">>]}
    \cup {[kind |-> "response", status |-> 401,
           body |-> JsonError(<<"Unauthorized: ">> \o Tail(request.headers.authorization))]}
    \cup {[kind |-> "response", status |-> st, body |-> b] :
             st \in Statuses \ {200}, b \in ErrorBodies}
    \cup {[kind |-> "response", status |-> 200, body |-> b] :
             b \in (IF step = "upload" THEN UploadBodies ELSE OcrBodies)}
    \cup {[kind |-> "response", status |-> 201, body |-> b] :
             b \in {TextBody(<<"<html>">>),
                    IF step = "upload" THEN JsonBody(<<"{receipt}">>, R_ok)
                    ELSE JsonBody(<<"{ocr}">>, O_ok(1))}}

\* ================================================================= state
\* ------------------------------------------------------------------ cache
\* bounds of the cache model: the largest max_entries and the last instant
MaxEntries == 2
MaxTime == 3

\* sample keys, values and times to live (in clock ticks)
Keys == {"key1", "key2", "key3"}
Values == {"value1", "value2"}
Ttls == {0}
DefaultTtls == {2}

\* Cache::new; entries maps a key to its entry, or to None when absent
Cache_new(default_ttl, max_entries) ==
    [entries |-> [k \in Keys |-> None], default_ttl |-> default_ttl, max_entries |-> max_entries]

\* CacheEntry::new at instant t
CacheEntry_new(data, ttl, t) == [data |-> data, created_at |-> t, expires_at |-> t + ttl]

\* CacheEntry::is_expired at instant t
is_expired(entry, t) == t > entry.expires_at

\* HashMap::len
len(entries) == Cardinality({k \in Keys : entries[k].some})

\* Cache::evict_expired_entries
evict_expired_entries(entries, t) ==
    [k \in Keys |-> IF entries[k].some /\ is_expired(entries[k].v, t) THEN None ELSE entries[k]]

\* a variant that looks for the entry created last
find_oldest_entry_newest(entries) ==
    {k \in Keys : /\ entries[k].some
                  /\ \A j \in Keys : entries[j].some => entries[j].v.created_at <= entries[k].v.created_at}

\* Cache::find_oldest_entry: min_by_key gives the first entry of least
\* created_at in the iteration order of the HashMap, which is unspecified:
\* any key of least created_at may be the result, and none for an empty map
find_oldest_entry(entries) ==
    {k \in Keys : /\ entries[k].some
                  /\ \A j \in Keys : entries[j].some => entries[k].v.created_at <= entries[j].v.created_at}

\* Cache::put_with_ttl at instant t: the maps of entries it can leave
put_with_ttl(c, key, value, ttl, t) ==
    LET at_max == len(c.entries) >= c.max_entries
        kept == IF at_max THEN evict_expired_entries(c.entries, t) ELSE c.entries
        still_at_max == at_max /\ len(kept) >= c.max_entries
        evicted == IF still_at_max /\ find_oldest_entry(kept) # {}
                   THEN {[kept EXCEPT ![oldest_key] = None] : oldest_key \in find_oldest_entry(kept)}
                   ELSE {kept}
    IN  {[e EXCEPT ![key] = Some(CacheEntry_new(value, ttl, t))] : e \in evicted}

\* Cache::put at instant t
put(c, key, value, t) == put_with_ttl(c, key, value, c.default_ttl, t)

\* Cache::get at instant t: the value returned and the entries left
get(c, key, t) ==
    IF c.entries[key].some
    THEN IF is_expired(c.entries[key].v, t)
         THEN [value |-> None, entries |-> [c.entries EXCEPT ![key] = None]]
         ELSE [value |-> Some(c.entries[key].v.data), entries |-> c.entries]
    ELSE [value |-> None, entries |-> c.entries]

\* Cache::remove
remove(c, key) ==
    [value |-> IF c.entries[key].some THEN Some(c.entries[key].v.data) ELSE None,
     entries |-> [c.entries EXCEPT ![key] = None]]

\* Cache::clear
clear(c) == [k \in Keys |-> None]

\* no cache is in use
NoCache == Cache_new(0, 0)

VARIABLES
    pc,               \* where the process is
    args,             \* the command line flags
    env,              \* the process environment
    disk,             \* the files the run reads
    cli,              \* the parsed Cli
    config,           \* the effective Config
    file_upload,      \* the FileUpload
    client,           \* the MistralClient
    http,             \* per step: the state of execute_with_retry
    wire,             \* the HTTP requests sent so far, in order
    upload_response,  \* the FileUploadResponse that upload_file returned
    ocr_response,     \* the OCRResponse that process_ocr returned
    result,           \* what Cli::execute works on / returns
    stdout,
    stderr,
    exitCode,         \* the code the process exited with, once it has
    call,             \* a library function applied on its own: its name and argument
    ret,              \* and what it returned
    cache,            \* a Cache
    now               \* the instant Instant::now() gives

vars == <<pc, args, env, disk, cli, config, file_upload, client, http, wire,
          upload_response, ocr_response, result, stdout, stderr, exitCode, call, ret,
          cache, now>>

inputs == <<args, env, disk>>

\* the state of the functions applied on their own; a run of main leaves it alone
unit == <<call, ret, cache, now>>

\* opens counts the File::open calls of the step: each gives a new reader
StepInit == [attempt |-> 0, n429 |-> 0, last |-> None, delays |-> <<>>,
             request |-> None, result |-> Pending, opens |-> 0]

Init ==
    /\ pc = "main"
    /\ \/ \E fs \in FileScenarios, ks \in KeyScenarios, us \in UrlScenarios,
             cs \in ConfigScenarios, j \in BOOLEAN :
             /\ args = [file |-> fs[1], api_key |-> ks[1], api_base_url |-> us[1], json |-> j,
                        verbose |-> FALSE, config |-> cs[1], completions |-> None]
             /\ env = [NoEnv EXCEPT !.API_KEY = ks[2], !.API_BASE_URL = us[2]]
             /\ disk = [doc |-> fs[2], custom_toml |-> cs[2], default_toml |-> cs[3]]
       \/ \E sh \in {"bash", "tcsh"}, j \in BOOLEAN :
             /\ args = [NoArgs EXCEPT !.completions = Some(sh), !.json = j]
             /\ env = NoEnv
             /\ disk = [doc |-> F_missing, custom_toml |-> T_absent, default_toml |-> T_absent]
    /\ cli = None
    /\ config = None
    /\ file_upload = None
    /\ client = None
    /\ http = [upload |-> StepInit, ocr |-> StepInit]
    /\ wire = <<>>
    /\ upload_response = None
    /\ ocr_response = None
    /\ result = Pending
    /\ stdout = <<>>
    /\ stderr = <<>>
    /\ exitCode = None
    /\ call = None
    /\ ret = None
    /\ cache = NoCache
    /\ now = 0

\* Cli::execute returns r to main
Return(r) ==
    /\ result' = r
    /\ pc' = "main_exit"

\* process_ocr_command returns Err(e) to the match in Cli::execute
Fail(r) ==
    /\ result' = r
    /\ pc' = "report"

\* ================================================================ actions
\* main: Cli::parse, and the help text when there is no argument at all
Main ==
    /\ pc = "main"
    /\ cli' = Some(Cli_parse(args, env))
    /\ IF NoArguments(args)
       THEN /\ stdout' = Append(stdout, [fmt |-> "text", text |-> <<"help">>])
            /\ exitCode' = Some(0)
            /\ pc' = "exited"
       ELSE /\ pc' = "execute"
            /\ UNCHANGED <<stdout, exitCode>>
    /\ UNCHANGED <<inputs, unit, config, file_upload, client, http, wire, upload_response,
                   ocr_response, result, stderr>>

\* Cli::execute, --completions
ExecuteCompletions ==
    /\ pc = "execute"
    /\ cli.v.completions.some
    /\ LET r == generate_completion_script(cli.v.completions.v) IN
       /\ stdout' = IF IsOk(r) THEN Append(stdout, [fmt |-> "text", text |-> r.val]) ELSE stdout
       /\ Return(IF IsOk(r) THEN Ok(None) ELSE r)
    /\ UNCHANGED <<inputs, unit, cli, config, file_upload, client, http, wire, upload_response,
                   ocr_response, stderr, exitCode>>

\* Cli::execute: self.validate()? and init_logging
ExecuteValidate ==
    /\ pc = "execute"
    /\ ~cli.v.completions.some
    /\ LET v == Cli_validate(cli.v) IN
       IF IsErr(v) THEN Return(v)
       ELSE /\ pc' = "load_config"
            /\ UNCHANGED result
    /\ UNCHANGED <<inputs, unit, cli, config, file_upload, client, http, wire, upload_response,
                   ocr_response, stdout, stderr, exitCode>>

\* Cli::execute: load the configuration, apply the flags, validate it
ExecuteLoadConfig ==
    /\ pc = "load_config"
    /\ LET loaded == IF cli.v.config.some THEN load_from_path(disk.custom_toml, env)
                     ELSE load_without_validation(disk.default_toml, env)
           c1 == IF cli.v.api_key.some THEN [loaded.val EXCEPT !.api_key = cli.v.api_key.v]
                 ELSE loaded.val
           c2 == IF cli.v.api_base_url.some THEN [c1 EXCEPT !.api_base_url = cli.v.api_base_url.v]
                 ELSE c1
       IN  IF IsErr(loaded) THEN Return(loaded) /\ UNCHANGED config
           ELSE /\ config' = Some(c2)
                /\ IF IsErr(Config_validate(c2)) THEN Return(Config_validate(c2))
                   ELSE IF ~cli.v.file.some
                   THEN Return(Err("Validation", <<"File path is required for OCR processing">>))
                   ELSE /\ pc' = "file_new"
                        /\ UNCHANGED result
    /\ UNCHANGED <<inputs, unit, cli, file_upload, client, http, wire, upload_response,
                   ocr_response, stdout, stderr, exitCode>>

\* process_ocr_command: FileUpload::new(input_file_path)?
FileNew ==
    /\ pc = "file_new"
    /\ LET r == FileUpload_new(cli.v.file.v, disk.doc) IN
       IF IsErr(r) THEN Fail(r) /\ UNCHANGED file_upload
       ELSE /\ file_upload' = Some(r.val)
            /\ pc' = "check_size"
            /\ UNCHANGED result
    /\ UNCHANGED <<inputs, unit, cli, config, client, http, wire, upload_response,
                   ocr_response, stdout, stderr, exitCode>>

\* process_ocr_command: the size limit of the configuration
CheckSize ==
    /\ pc = "check_size"
    /\ LET max_size_bytes == config.v.max_file_size_mb * MiB IN
       IF file_upload.v.file_size > max_size_bytes
       THEN Fail(Err("Validation", <<"File size exceeds maximum allowed size (",
                                     ToString(config.v.max_file_size_mb), " MB)">>))
       ELSE /\ pc' = "create_client"
            /\ UNCHANGED result
    /\ UNCHANGED <<inputs, unit, cli, config, file_upload, client, http, wire, upload_response,
                   ocr_response, stdout, stderr, exitCode>>

\* process_ocr_command: APICredentials::from_config and MistralClient::new
CreateClient ==
    /\ pc = "create_client"
    /\ LET r == APICredentials_new(config.v.api_key, config.v.api_base_url) IN
       IF IsErr(r) THEN Fail(r) /\ UNCHANGED client
       ELSE /\ client' = Some([credentials |-> r.val, base_url |-> r.val.api_base_url,
                               timeout_seconds |-> config.v.timeout_seconds])
            /\ pc' = "upload_begin"
            /\ UNCHANGED result
    /\ UNCHANGED <<inputs, unit, cli, config, file_upload, http, wire, upload_response,
                   ocr_response, stdout, stderr, exitCode>>

\* a variant that hands out the reader of the form built before the loop
to_streaming_multipart_form_reused(opens) == 1

\* FileUploadRequest::to_streaming_multipart_form: File::open gives the next
\* reader, and the part of the form streams from it; opens is the number of
\* readers opened so far
to_streaming_multipart_form(opens) == opens + 1

\* the closure given to execute_with_retry builds the request of one attempt:
\* an upload from memory clones file_data (reader 0: no file is read), a
\* streamed upload builds its form again, an OCR request clones its JSON
produce_request(request, opens) ==
    IF request.body.kind = "multipart" /\ request.body.source = "stream"
    THEN [request |-> [request EXCEPT !.body.reader = to_streaming_multipart_form(opens)],
          opens |-> opens + 1]
    ELSE [request |-> request, opens |-> opens]

\* MistralClient::build_url
build_url(base_url, endpoint) == base_url \o <<"/", endpoint>>

\* FilesClient::upload_file up to the retry loop (and upload_file_streaming
\* for a file above the threshold): the request that every attempt rebuilds
UploadBegin ==
    /\ pc = "upload_begin"
    /\ LET fu == file_upload.v
           streaming == fu.file_size > STREAMING_THRESHOLD
           q == FileUploadRequest_new(fu.file_size, get_filename(fu.file_path))
           v == IF streaming THEN Ok(TRUE) ELSE FileUploadRequest_validate(q)
           c == APICredentials_new(client.v.credentials.api_key, client.v.credentials.api_base_url)
           h == IF IsErr(c) THEN c ELSE get_headers(c.val, FALSE)
       IN  IF IsErr(v) THEN Fail(v) /\ UNCHANGED http
           ELSE IF IsErr(h) THEN Fail(h) /\ UNCHANGED http
           ELSE /\ http' = [http EXCEPT
                              !.upload.request =
                                  Some([method |-> "POST",
                                        url |-> build_url(client.v.base_url, "v1/files"),
                                        headers |-> h.val,
                                        body |-> [kind |-> "multipart",
                                                  file |-> get_filename(fu.file_path),
                                                  purpose |-> "ocr",
                                                  source |-> IF streaming THEN "stream" ELSE "memory",
                                                  reader |-> IF streaming
                                                             THEN to_streaming_multipart_form(0)
                                                             ELSE 0]]),
                              !.upload.opens = IF streaming THEN 1 ELSE 0]
                /\ pc' = "upload_send"
                /\ UNCHANGED result
    /\ UNCHANGED <<inputs, unit, cli, config, file_upload, client, wire, upload_response,
                   ocr_response, stdout, stderr, exitCode>>

\* one iteration of execute_with_retry for the step: the producer sends the
\* request, the network answers with o, the loop continues or returns
HttpAttempt(step) ==
    /\ pc = step \o "_send"
    /\ http[step].attempt <= MAX_RETRIES
    /\ \E o \in ServerOutcomes(step, http[step].request.v) :
         LET h == http[step]
             sent == produce_request(h.request.v, h.opens)
             d == execute_with_retry_step(h.attempt, request_fn(o))
         IN  /\ wire' = Append(wire, sent.request)
             /\ http' = [http EXCEPT ![step] =
                            [h EXCEPT !.attempt = h.attempt + 1,
                                      !.opens = sent.opens,
                                      !.n429 = IF o.kind = "response" /\ o.status = 429
                                               THEN h.n429 + 1 ELSE h.n429,
                                      !.last = Some(o),
                                      !.delays = IF d.continue THEN Append(h.delays, d.delay_ms)
                                                 ELSE h.delays,
                                      !.result = d.result]]
             /\ pc' = IF d.continue THEN pc ELSE step \o "_parse"
    /\ UNCHANGED <<inputs, unit, cli, config, file_upload, client, upload_response,
                   ocr_response, result, stdout, stderr, exitCode>>

UploadAttempt == HttpAttempt("upload")

OcrAttempt == HttpAttempt("ocr")

\* the rest of upload_file: response?, text(), from_str, validate()
UploadParse ==
    /\ pc = "upload_parse"
    /\ LET r == http.upload.result IN
       IF IsErr(r) THEN Fail(r) /\ UNCHANGED upload_response
       ELSE LET b == r.val.body IN
            IF ~b.readable
            THEN Fail(Err("Network", <<"error decoding response body">>)) /\ UNCHANGED upload_response
            ELSE IF ~b.json.some
            THEN Fail(Err("Api", <<"Failed to parse upload response: ", "expected value">>))
                 /\ UNCHANGED upload_response
            ELSE IF IsErr(FileUploadResponse_validate(b.json.v))
            THEN Fail(FileUploadResponse_validate(b.json.v)) /\ UNCHANGED upload_response
            ELSE /\ upload_response' = Some(b.json.v)
                 /\ pc' = "ocr_begin"
                 /\ UNCHANGED result
    /\ UNCHANGED <<inputs, unit, cli, config, file_upload, client, http, wire,
                   ocr_response, stdout, stderr, exitCode>>

\* OCRClient::process_ocr up to the retry loop
OcrBegin ==
    /\ pc = "ocr_begin"
    /\ LET q == OCRRequest_new(upload_response.v.id)
           v == OCRRequest_validate(q)
           c == APICredentials_new(client.v.credentials.api_key, client.v.credentials.api_base_url)
           h == IF IsErr(c) THEN c ELSE get_headers(c.val, TRUE)
       IN  IF IsErr(v) THEN Fail(v) /\ UNCHANGED http
           ELSE IF IsErr(h) THEN Fail(h) /\ UNCHANGED http
           ELSE /\ http' = [http EXCEPT !.ocr.request =
                              Some([method |-> "POST",
                                    url |-> build_url(client.v.base_url, "v1/ocr"),
                                    headers |-> h.val,
                                    body |-> [kind |-> "json", json |-> q]])]
                /\ pc' = "ocr_send"
                /\ UNCHANGED result
    /\ UNCHANGED <<inputs, unit, cli, config, file_upload, client, wire, upload_response,
                   ocr_response, stdout, stderr, exitCode>>

\* the rest of process_ocr
OcrParse ==
    /\ pc = "ocr_parse"
    /\ LET r == http.ocr.result IN
       IF IsErr(r) THEN Fail(r) /\ UNCHANGED ocr_response
       ELSE LET b == r.val.body IN
            IF ~b.readable
            THEN Fail(Err("Network", <<"error decoding response body">>)) /\ UNCHANGED ocr_response
            ELSE IF ~b.json.some
            THEN Fail(Err("Api", <<"Failed to parse OCR response: ", "expected value">>))
                 /\ UNCHANGED ocr_response
            ELSE IF IsErr(OCRResponse_validate(b.json.v))
            THEN Fail(OCRResponse_validate(b.json.v)) /\ UNCHANGED ocr_response
            ELSE /\ ocr_response' = Some(b.json.v)
                 /\ pc' = "format"
                 /\ UNCHANGED result
    /\ UNCHANGED <<inputs, unit, cli, config, file_upload, client, http, wire,
                   upload_response, stdout, stderr, exitCode>>

\* process_ocr_command: build the OCRResult and format it
FormatOutput ==
    /\ pc = "format"
    /\ LET r == OCRResult_from_extracted_text(get_extracted_text(ocr_response.v),
                    upload_response.v.id, ocr_response.v.model,
                    get_filename(file_upload.v.file_path), file_upload.v.file_size)
       IN  result' = Ok(Some(IF cli.v.json THEN OCRResult_to_json_output(r) ELSE to_human_readable(r)))
    /\ pc' = "report"
    /\ UNCHANGED <<inputs, unit, cli, config, file_upload, client, http, wire, upload_response,
                   ocr_response, stdout, stderr, exitCode>>

\* Cli::execute: the match on the result of process_ocr_command
Report ==
    /\ pc = "report"
    /\ IF IsOk(result)
       THEN /\ stdout' = Append(stdout, result.val.v)
            /\ UNCHANGED stderr
       ELSE IF cli.v.json
       THEN /\ stdout' = Append(stdout, CLIOutput_error(result.err))
            /\ UNCHANGED stderr
       ELSE /\ stderr' = Append(stderr, <<"Error: ">> \o user_message(result.err))
            /\ UNCHANGED stdout
    /\ pc' = "main_exit"
    /\ UNCHANGED <<inputs, unit, cli, config, file_upload, client, http, wire, upload_response,
                   ocr_response, result, exitCode>>

\* main: the match on the result of cli.execute()
MainExit ==
    /\ pc = "main_exit"
    /\ IF IsOk(result)
       THEN /\ exitCode' = Some(0)
            /\ UNCHANGED stderr
       ELSE /\ stderr' = Append(stderr, <<"Error: ">> \o to_string(result.err))
            /\ exitCode' = Some(exit_code(result.err))
    /\ pc' = "exited"
    /\ UNCHANGED <<inputs, unit, cli, config, file_upload, client, http, wire, upload_response,
                   ocr_response, result, stdout>>

Next ==
    \/ Main
    \/ ExecuteCompletions
    \/ ExecuteValidate
    \/ ExecuteLoadConfig
    \/ FileNew
    \/ CheckSize
    \/ CreateClient
    \/ UploadBegin
    \/ UploadAttempt
    \/ UploadParse
    \/ OcrBegin
    \/ OcrAttempt
    \/ OcrParse
    \/ FormatOutput
    \/ Report
    \/ MainExit

Spec == Init /\ [][Next]_vars

\* ================================================================ claims
Steps == {"upload", "ocr"}

\* the run asks for OCR: some argument is given and --completions is not
OcrRun == cli.some /\ ~cli.v.completions.some /\ ~NoArguments(args)

\* execute_with_retry has returned for the step
LoopReturned(step) == http[step].result # Pending

IsOcrRequest(q) == q.body.kind = "json"
IsUploadRequest(q) == q.body.kind = "multipart"

LastStatus(step) ==
    IF http[step].last.some /\ http[step].last.v.kind = "response"
    THEN http[step].last.v.status ELSE 0

\* C1: when every response of a step is 429, the retry loop makes exactly
\* 1 + retry_policy.max_retries attempts and then fails
C1_AttemptsOnAll429 ==
    \A step \in Steps :
        (LoopReturned(step) /\ http[step].n429 = http[step].attempt)
            => /\ http[step].attempt = 1 + config.v.retry_policy.max_retries
               /\ IsErr(http[step].result)

\* C2: a 429 from the upload endpoint within the budget of three retries is
\* followed by another upload attempt, and an upload that succeeds after k
\* answers of 429 has made exactly k + 1 attempts
C2_UploadRetriesAfter429 ==
    /\ (LastStatus("upload") = 429 /\ http.upload.n429 <= MAX_RETRIES) => pc = "upload_send"
    /\ (upload_response.some /\ http.upload.n429 \in 1..MAX_RETRIES)
           => http.upload.attempt = http.upload.n429 + 1
    /\ (pc = "exited" /\ ocr_response.some) => exitCode = Some(0)

\* C3: every OCR request on the wire comes after all upload requests, after
\* the upload step returned a receipt that passes validation, and carries the
\* id of that receipt; without such a receipt there is no OCR request
C3_UploadBeforeOcr ==
    \A i \in DOMAIN wire :
        IsOcrRequest(wire[i]) =>
            /\ upload_response.some
            /\ IsOk(http.upload.result)
            /\ http.upload.result.val.body.json = upload_response
            /\ upload_response.v \in ValidReceipts
            /\ wire[i].body.json.document.file_id = upload_response.v.id
            /\ \A j \in DOMAIN wire : IsUploadRequest(wire[j]) => j < i

C3_Witness ==
    /\ \E i \in DOMAIN wire : IsOcrRequest(wire[i])
    /\ upload_response.some
    /\ upload_response.v.id = <<"f", "-", "2">>

\* C4: an OCR run exits with 0 exactly when the pipeline succeeded, and a
\* failed one with the code of its error category: validation 2, file_io 3,
\* config 4, api, network and internal 5
C4_ExitCodeByCategory ==
    (pc = "exited" /\ OcrRun) =>
        /\ exitCode.some
        /\ (exitCode.v = 0) <=> (ocr_response.some /\ IsOk(result))
        /\ IsErr(result) =>
              /\ result.err.kind = "Validation" => exitCode.v = 2
              /\ result.err.kind = "Io" => exitCode.v = 3
              /\ result.err.kind = "Config" => exitCode.v = 4
              /\ result.err.kind \in {"Api", "Network", "Internal"} => exitCode.v = 5
              /\ exitCode.v \in {2, 3, 4, 5}

C4_Witness ==
    /\ pc = "exited" /\ OcrRun /\ IsErr(result)
    /\ result.err.kind = "Config"
    /\ exitCode = Some(4)
    /\ wire = <<>>

\* C5: a step that gives up on a response 429, 502, 503 or 504 (which the
\* retry rule allows only once the budget of retries is exhausted) fails with
\* category network and exit code 5
C5_ExhaustedIsNetwork ==
    \A step \in Steps :
        (/\ LoopReturned(step)
         /\ IsErr(http[step].result)
         /\ LastStatus(step) \in {429, 502, 503, 504})
            => /\ error_type(http[step].result.err) = "network"
               /\ exit_code(http[step].result.err) = 5

\* C6: a step that fails on a non-2xx response has category validation
\* (exit 2) for 400 and category api (exit 5) for 401, 403, 404 and 5xx
C6_StatusCategory ==
    \A step \in Steps :
        (LoopReturned(step) /\ IsErr(http[step].result) /\ LastStatus(step) # 0) =>
            LET e == http[step].result.err
                st == LastStatus(step)
            IN  /\ st = 400 => (error_type(e) = "validation" /\ exit_code(e) = 2)
                /\ (st \in {401, 403, 404} \/ (st >= 500 /\ st <= 599))
                      => (error_type(e) = "api" /\ exit_code(e) = 5)

\* the run failed because the 2xx body of the step broke a data-model invariant
InvariantViolation(step) ==
    /\ IsOk(http[step].result)
    /\ http[step].result.val.body.readable
    /\ http[step].result.val.body.json.some
    /\ http[step].result.val.body.json.v \in InvalidReceipts \cup InvalidOcrResponses
    /\ IsErr(result)

\* C7: a 2xx response that parses but violates a data-model invariant fails
\* the run with category api and exit code 5
C7_InvariantViolationIsApi ==
    \A step \in Steps :
        InvariantViolation(step) =>
            /\ error_type(result.err) = "api"
            /\ pc = "exited" => exitCode = Some(5)

\* the format the leading bytes of a file announce
MagicMime(head) ==
    IF Len(head) >= 4 /\ SubSeq(head, 1, 4) = <<37, 80, 68, 70>> THEN Some("application/pdf")
    ELSE IF Len(head) >= 4 /\ SubSeq(head, 1, 4) = <<137, 80, 78, 71>> THEN Some("image/png")
    ELSE IF Len(head) >= 3 /\ SubSeq(head, 1, 3) = <<255, 216, 255>> THEN Some("image/jpeg")
    ELSE None

\* the input file is one that local validation has to refuse, all cases but
\* the magic bytes: missing path, unsupported extension, fewer than four
\* bytes, encrypted PDF
LocalFileInvalidButMagic ==
    /\ args.file.some
    /\ \/ ~disk.doc.exists
       \/ ~extension(args.file.v).some
       \/ extension(args.file.v).v \notin {".pdf", ".png", ".jpg", ".jpeg"}
       \/ disk.doc.size < 4
       \/ MagicMime(disk.doc.head) = Some("application/pdf") /\ "/Encrypt" \in disk.doc.markers

\* the leading bytes announce no supported format
NoKnownMagic == args.file.some /\ ~MagicMime(disk.doc.head).some

\* the leading bytes announce another format than the extension
MagicContradictsExtension ==
    /\ args.file.some
    /\ MagicMime(disk.doc.head).some
    /\ MagicMime(disk.doc.head).v # mime_guess(args.file.v)

LocalFileInvalid == LocalFileInvalidButMagic \/ NoKnownMagic \/ MagicContradictsExtension

FileTooLarge ==
    \/ disk.doc.size > 100 * MiB
    \/ config.some /\ disk.doc.size > config.v.max_file_size_mb * MiB

CredentialsInvalid ==
    config.some /\ \/ config.v.api_key = <<>>
                   \/ Contains(config.v.api_key, " ")
                   \/ config.v.api_base_url = <<>>
                   \/ config.v.api_base_url[1] # "https"

\* C8: a run whose file fails local validation or is larger than the
\* configured maximum, or whose credentials are invalid, sends no request
C8_NoHttpOnLocalFailure ==
    (LocalFileInvalid \/ FileTooLarge \/ CredentialsInvalid) =>
        /\ wire = <<>>
        /\ http.upload.attempt = 0 /\ http.ocr.attempt = 0
        /\ pc = "exited" => (exitCode.some /\ exitCode.v # 0)

\* every case of the above except a contradiction between leading bytes and
\* extension sends nothing
NoHttpUnlessMagicContradiction ==
    (LocalFileInvalidButMagic \/ NoKnownMagic \/ FileTooLarge \/ CredentialsInvalid) =>
        /\ wire = <<>>
        /\ http.upload.attempt = 0 /\ http.ocr.attempt = 0

\* C9: in JSON mode a failing OCR run writes exactly one JSON error envelope
\* to stdout and nothing else
C9_JsonFailureEnvelope ==
    (pc = "exited" /\ OcrRun /\ cli.v.json /\ IsErr(result)) =>
        /\ Len(stdout) = 1
        /\ stdout[1].fmt = "json"
        /\ stdout[1].doc.success = FALSE
        /\ stdout[1].doc.error.type = error_type(result.err)
        /\ stdout[1].doc.error.message = user_message(result.err)

\* C10: in human mode a failing OCR run writes exactly one line
\* "Error: <user message>" to stderr and nothing to stdout
C10_HumanFailureLine ==
    (pc = "exited" /\ OcrRun /\ ~cli.v.json /\ IsErr(result)) =>
        /\ stdout = <<>>
        /\ stderr = << <<"Error: ">> \o user_message(result.err) >>

\* the last thing the network did for the step was a transport-level error
LastTransportError(step) ==
    http[step].last.some /\ http[step].last.v.kind = "transport_error"

\* C11: after a response 502, 503 or 504, or a transport-level error, with
\* fewer than three retries made so far, the retry loop has not returned: it
\* goes on to another attempt of the same request
C11_RetryOn5xxAndTransport ==
    \A step \in Steps :
        (/\ http[step].attempt \in 1..MAX_RETRIES
         /\ \/ LastStatus(step) \in {502, 503, 504}
            \/ LastTransportError(step))
            => /\ ~LoopReturned(step)
               /\ pc = step \o "_send"

\* the requests of the step that went out
AttemptsOnWire(step) ==
    Cardinality({i \in DOMAIN wire :
                    IF step = "upload" THEN IsUploadRequest(wire[i]) ELSE IsOcrRequest(wire[i])})

\* C12: whatever the server answers, one call of the retry loop makes at most
\* four HTTP attempts
C12_AtMostFourAttempts ==
    \A step \in Steps :
        /\ http[step].attempt <= 4
        /\ AttemptsOnWire(step) <= 4
        /\ Len(http[step].delays) <= 3

\* a call that used all four attempts, after three retries
C12_Witness ==
    /\ http.upload.attempt = 4
    /\ AttemptsOnWire("upload") = 4
    /\ Len(http.upload.delays) = 3
    /\ LoopReturned("upload")

\* the statuses that never cause a retry: every 2xx and every 4xx but 429
IsNonTrigger(st) == (st >= 200 /\ st <= 299) \/ (st >= 400 /\ st <= 499 /\ st # 429)

\* the step failed after its retry loop had returned a 2xx response: the body
\* could not be read or parsed, or the parsed document failed validate()
FailedAfterLoop(step) ==
    /\ IsOk(http[step].result)
    /\ IsErr(result)
    /\ step = "upload" => ~upload_response.some
    /\ step = "ocr" => ~ocr_response.some

\* C13: a 2xx response and a 4xx response other than 429 end the retry loop
\* (every attempt before it was followed by a delay, this one is not, so a
\* first such response means exactly one attempt), and a parsing or
\* validation failure after the loop adds no attempt
C13_NoRetryOnNonTriggers ==
    \A step \in Steps :
        /\ IsNonTrigger(LastStatus(step)) =>
              /\ LoopReturned(step)
              /\ pc # step \o "_send"
              /\ http[step].attempt = Len(http[step].delays) + 1
              /\ AttemptsOnWire(step) = http[step].attempt
        /\ FailedAfterLoop(step) =>
              /\ http[step].attempt = Len(http[step].delays) + 1
              /\ AttemptsOnWire(step) = http[step].attempt

\* a run whose upload was answered 404 with a text that says rate limit, and
\* that ended after this one attempt
C13_Witness ==
    /\ pc = "exited"
    /\ LastStatus("upload") = 404
    /\ Contains(http.upload.last.v.body.raw, "rate limit")
    /\ http.upload.attempt = 1
    /\ AttemptsOnWire("upload") = 1
    /\ wire # <<>> /\ Len(wire) = 1

\* k occurs in s as a contiguous run of tokens
ContainsSeq(s, k) ==
    /\ k # <<>>
    /\ \E i \in 1..(Len(s) - Len(k) + 1) : SubSeq(s, i, i + Len(k) - 1) = k

\* the texts an entry of stdout carries
EmittedTexts(entry) ==
    IF entry.fmt = "text" THEN {entry.text}
    ELSE IF entry.doc.success
         THEN {entry.doc.data.extracted_text, entry.doc.data.file_name}
         ELSE {entry.doc.error.message, entry.doc.error.details.v}

\* the key the run works with, once the configuration is loaded
KeyInUse == IF client.some THEN client.v.credentials.api_key ELSE <<>>

\* C14: no text written to stdout or stderr contains the configured API key,
\* whatever the server returns (the log sink is not part of this formula)
C14_KeyNeverEmitted ==
    /\ \A i \in DOMAIN stderr : ~ContainsSeq(stderr[i], KeyInUse)
    /\ \A i \in DOMAIN stdout : \A t \in EmittedTexts(stdout[i]) : ~ContainsSeq(t, KeyInUse)

\* ================================================= functions on their own
\* longest message, in tokens, that the functions below are applied to
MaxMsgLen == 3

\* str::replace: every token tok of s becomes the tokens of r
RECURSIVE Replace(_, _, _)
Replace(s, tok, r) ==
    IF s = <<>> THEN <<>>
    ELSE (IF Head(s) = tok THEN r ELSE <<Head(s)>>) \o Replace(Tail(s), tok, r)

\* APIError::new
APIError_new(ty, message, details) ==
    [error_type |-> ty, message |-> message, details |-> details, code |-> None]

\* APIError::to_log_string
to_log_string(e) ==
    LET log_msg == Replace(<<"[", e.error_type, "] ">> \o e.message, "sk-", <<"***redacted***">>)
    IN  IF e.details.some
        THEN log_msg \o <<" (">> \o Replace(e.details.v, "sk-", <<"***redacted***">>) \o <<")">>
        ELSE log_msg

\* APIError::to_user_string
to_user_string(e) == Replace(e.message, "sk-", <<"***">>)

\* sample messages: all texts of at most MaxMsgLen tokens
MsgTokens == {"key ", "sk-", "test123456789"}
Messages == UNION {[1..k -> MsgTokens] : k \in 0..MaxMsgLen}
DetailsSamples ==
    {None, Some(<<"Too many requests">>),
     Some(<<"API key ", "sk-", "test123456789", " is invalid">>)}
APIErrors == {APIError_new("api", m, d) : m \in Messages, d \in DetailsSamples}
ErrorKinds == {"Validation", "Io", "Config", "Api", "Network", "Internal"}

\* the variables of a run of main
process == <<pc, args, env, disk, cli, config, file_upload, client, http, wire,
             upload_response, ocr_response, result, stdout, stderr, exitCode>>

\* no run of main: only library functions are applied
UnitInit ==
    /\ pc = "unit"
    /\ args = NoArgs
    /\ env = NoEnv
    /\ disk = [doc |-> F_missing, custom_toml |-> T_absent, default_toml |-> T_absent]
    /\ cli = None
    /\ config = None
    /\ file_upload = None
    /\ client = None
    /\ http = [upload |-> StepInit, ocr |-> StepInit]
    /\ wire = <<>>
    /\ upload_response = None
    /\ ocr_response = None
    /\ result = Pending
    /\ stdout = <<>>
    /\ stderr = <<>>
    /\ exitCode = None
    /\ call = None
    /\ ret = None
    /\ cache = NoCache
    /\ now = 0

ToLogString ==
    /\ pc = "unit"
    /\ \E e \in APIErrors :
         /\ call' = Some([fn |-> "to_log_string", arg |-> e])
         /\ ret' = Some(to_log_string(e))
    /\ UNCHANGED <<process, cache, now>>

ToUserString ==
    /\ pc = "unit"
    /\ \E e \in APIErrors :
         /\ call' = Some([fn |-> "to_user_string", arg |-> e])
         /\ ret' = Some(to_user_string(e))
    /\ UNCHANGED <<process, cache, now>>

UserMessage ==
    /\ pc = "unit"
    /\ \E k \in ErrorKinds, m \in Messages :
         /\ call' = Some([fn |-> "user_message", arg |-> [kind |-> k, msg |-> m]])
         /\ ret' = Some(user_message([kind |-> k, msg |-> m]))
    /\ UNCHANGED <<process, cache, now>>

\* a variant that does not look at the success flag
CLIOutput_validate_ignores_success(o) ==
    IF o.data.some # o.error.some THEN Ok(TRUE)
    ELSE Err("Validation", <<"CLI output must have either data (success=true) or error (success=false), not both">>)

\* CLIOutput::validate
CLIOutput_validate(o) ==
    IF o.success /\ o.data.some /\ ~o.error.some THEN Ok(TRUE)
    ELSE IF ~o.success /\ ~o.data.some /\ o.error.some THEN Ok(TRUE)
    ELSE Err("Validation", <<"CLI output must have either data (success=true) or error (success=false), not both">>)

\* sample outputs: every combination of flag, data and error
CLISuccessDataSamples ==
    {[extracted_text |-> <<"Sample text">>, file_name |-> <<"test", ".pdf">>, file_size |-> 1024,
      processing_time_ms |-> 2000, confidence |-> None]}
CLIErrorDataSamples ==
    {[type |-> "validation", message |-> <<"Test error">>, details |-> None],
     [type |-> "internal", message |-> <<"Should not have both">>, details |-> Some(<<"details">>)]}
CLIOutputs ==
    {[success |-> s, data |-> d, error |-> e] :
        s \in BOOLEAN,
        d \in {None} \cup {Some(x) : x \in CLISuccessDataSamples},
        e \in {None} \cup {Some(x) : x \in CLIErrorDataSamples}}

ValidateOutput ==
    /\ pc = "unit"
    /\ \E o \in CLIOutputs :
         /\ call' = Some([fn |-> "CLIOutput_validate", arg |-> o])
         /\ ret' = Some(CLIOutput_validate(o))
    /\ UNCHANGED <<process, cache, now>>

\* sample statuses: the ends of the 4xx and 5xx ranges and statuses around them
StatusSamples == {100, 200, 304, 399, 400, 404, 429, 499, 500, 503, 599, 600}
StatusMessages == {<<"Bad Request">>, <<"Internal Server Error">>, <<"OK">>}

FromHttpStatus ==
    /\ pc = "unit"
    /\ \E st \in StatusSamples, m \in StatusMessages :
         /\ call' = Some([fn |-> "from_http_status", arg |-> [status |-> st, message |-> m]])
         /\ ret' = Some(from_http_status(st, m))
    /\ UNCHANGED <<process, cache, now>>

\* the loop of MistralClient::execute_with_retry from iteration attempt on;
\* outcomes[k] is what the k-th call of request_fn returns. Falling out of
\* the loop reaches unreachable!()
RECURSIVE execute_with_retry_from(_, _)
execute_with_retry_from(attempt, outcomes) ==
    IF attempt > MAX_RETRIES THEN [result |-> [tag |-> "unreachable"], attempts |-> attempt]
    ELSE LET d == execute_with_retry_step(attempt, outcomes[attempt + 1]) IN
         IF d.continue THEN execute_with_retry_from(attempt + 1, outcomes)
         ELSE [result |-> d.result, attempts |-> attempt + 1]

\* MistralClient::execute_with_retry
execute_with_retry(outcomes) == execute_with_retry_from(0, outcomes)

\* what a request_fn can return: a response of any status, or an error
AttemptOutcomes ==
    {Ok([status |-> 200, body |-> TextBody(<<"ok">>)]),
     Ok([status |-> 429, body |-> TextBody(<<"Too Many Requests">>)]),
     Err("Api", <<"Server error (", "503", "): ", "rate limit", " exceeded">>),
     Err("Api", <<"Server error (", "500", "): ", "boom">>),
     Err("Validation", <<"Client error (", "429", "): ", "Too Many Requests">>),
     Err("Network", <<"error sending request">>)}
OutcomeSequences == [1..(MAX_RETRIES + 1) -> AttemptOutcomes]

ExecuteWithRetry ==
    /\ pc = "unit"
    /\ \E outcomes \in OutcomeSequences :
         /\ call' = Some([fn |-> "execute_with_retry", arg |-> outcomes])
         /\ ret' = Some(execute_with_retry(outcomes))
    /\ UNCHANGED <<process, cache, now>>

\* `as i64` of a quotient: rounds towards zero
TruncDiv(a, b) == IF a >= 0 THEN a \div b ELSE -((-a) \div b)

\* RetryPolicy::calculate_delay, in milliseconds; random is the value of
\* rand::random::<f64>() in hundredths, jitter_percent the jitter_factor in
\* hundredths
calculate_delay(p, attempt, random) ==
    IF attempt = 0 THEN 0
    ELSE LET delay_ms == IF p.exponential_backoff THEN p.base_delay_ms * Pow2(attempt - 1)
                         ELSE p.base_delay_ms
             \* delay_ms * jitter_factor * (random - 0.5) * 2.0; the sample bases are
             \* multiples of 100 ms, so the first quotient is exact
             jitter == TruncDiv((delay_ms \div 100) * p.jitter_percent * (2 * random - 100), 100)
             jittered == IF p.jitter_percent > 0
                         THEN (IF delay_ms + jitter > 1 THEN delay_ms + jitter ELSE 1)
                         ELSE delay_ms
         IN  IF jittered < p.max_delay_ms THEN jittered ELSE p.max_delay_ms

\* sample policies that pass RetryPolicy::validate, attempts up to the
\* largest max_retries that passes, and sample random values in [0, 1)
RetryPolicies ==
    {RetryPolicy_default,
     [RetryPolicy_default EXCEPT !.base_delay_ms = 5000, !.max_delay_ms = 6000],
     [RetryPolicy_default EXCEPT !.exponential_backoff = FALSE],
     [RetryPolicy_default EXCEPT !.jitter_percent = 100],
     [RetryPolicy_default EXCEPT !.jitter_percent = 0, !.max_delay_ms = 600000]}
RetryAttempts == 0..10
RandomSamples == {0, 25, 50, 75, 99}

CalculateDelay ==
    /\ pc = "unit"
    /\ \E p \in RetryPolicies, n \in RetryAttempts, r \in RandomSamples :
         /\ call' = Some([fn |-> "calculate_delay", arg |-> [policy |-> p, attempt |-> n, random |-> r]])
         /\ ret' = Some(calculate_delay(p, n, r))
    /\ UNCHANGED <<process, cache, now>>

UnitNext ==
    \/ ToLogString
    \/ ToUserString
    \/ UserMessage
    \/ ValidateOutput
    \/ FromHttpStatus
    \/ ExecuteWithRetry
    \/ CalculateDelay

UnitSpec == UnitInit /\ [][UnitNext]_vars

\* -------------------------------------------------------------- redaction
SampleKey == <<"sk-", "test123456789">>

Called(fn) == call.some /\ call.v.fn = fn

\* C15: a rendering of an error whose text contains a key holds "sk-***" in
\* its place and not the key: the log and the user rendering of an APIError,
\* and the user message of an Error
C15_KeyReplacedInRenderings ==
    /\ (Called("to_log_string")
        /\ \/ ContainsSeq(call.v.arg.message, SampleKey)
           \/ call.v.arg.details.some /\ ContainsSeq(call.v.arg.details.v, SampleKey))
          => /\ ContainsSeq(ret.v, <<"sk-", "***">>)
             /\ ~ContainsSeq(ret.v, SampleKey)
    /\ (Called("to_user_string") /\ ContainsSeq(call.v.arg.message, SampleKey))
          => /\ ContainsSeq(ret.v, <<"sk-", "***">>)
             /\ ~ContainsSeq(ret.v, SampleKey)
    /\ (Called("user_message") /\ ContainsSeq(call.v.arg.msg, SampleKey))
          => /\ ContainsSeq(ret.v, <<"sk-", "***">>)
             /\ ~ContainsSeq(ret.v, SampleKey)

\* ------------------------------------------------------------- OCR result
\* the markdown bodies of r in the order of the page indexes 0, 1, ..,
\* with "\n\n" between two consecutive ones
IndexOrderText(r) ==
    LET n == Len(r.pages)
        PageAt(i) == CHOOSE p \in {r.pages[j] : j \in 1..n} : p.index = i
        f[k \in 0..n] ==
            IF k = 0 THEN <<>>
            ELSE IF k = 1 THEN PageAt(0).markdown
            ELSE f[k - 1] \o <<"\n\n">> \o PageAt(k - 1).markdown
    IN  f[n]

\* the run got as far as an output for the OCR response
HasOutput == ocr_response.some /\ IsOk(result) /\ pc \in {"report", "main_exit", "exited"}

\* C16: the extracted text of the OCR response is its page markdowns in
\* page-index order joined by "\n\n", and this is the text of the output
C16_TextIsPagesJoined ==
    /\ ocr_response.some =>
          get_extracted_text(ocr_response.v) = IndexOrderText(ocr_response.v)
    /\ (HasOutput /\ cli.v.json) =>
          result.val.v.doc.data.extracted_text = IndexOrderText(ocr_response.v)
    /\ (HasOutput /\ ~cli.v.json /\ IndexOrderText(ocr_response.v) \notin {<<>>}) =>
          LET t == result.val.v.text
              x == IndexOrderText(ocr_response.v)
          IN  /\ Len(t) > Len(x)
              /\ SubSeq(t, Len(t) - Len(x) + 1, Len(t)) = x

\* a run that printed the text of a response of two pages
C16_Witness ==
    /\ pc = "exited"
    /\ HasOutput /\ cli.v.json
    /\ Len(ocr_response.v.pages) = 2
    /\ stdout # <<>>
    /\ stdout[1].doc.data.extracted_text = <<"hello", "\n\n", "world">>

\* the invariants of an OCR result
SatisfiesOcrInvariants(r) ==
    /\ r.model # <<>>
    /\ r.model[1] = "mistral-"
    /\ r.pages # <<>>
    /\ \A i \in DOMAIN r.pages :
          /\ r.pages[i].index = i - 1
          /\ r.pages[i].dimensions.width > 0
          /\ r.pages[i].dimensions.height > 0
    /\ r.usage_info.pages_processed = Len(r.pages)
    /\ r.usage_info.doc_size_bytes > 0

\* the OCR endpoint answered 2xx with a document that parsed
OcrAnswerParsed ==
    /\ pc \notin {"ocr_send", "ocr_parse"}
    /\ IsOk(http.ocr.result)
    /\ http.ocr.result.val.body.readable
    /\ http.ocr.result.val.body.json.some

\* C17: an OCR response returned as success satisfies every invariant of the
\* data model, and a parsed response that violates one is not returned as
\* success: the run fails
C17_SuccessfulOcrIsValid ==
    /\ ocr_response.some => SatisfiesOcrInvariants(ocr_response.v)
    /\ (OcrAnswerParsed /\ ~SatisfiesOcrInvariants(http.ocr.result.val.body.json.v))
          => (~ocr_response.some /\ IsErr(result))
    /\ (OcrAnswerParsed /\ SatisfiesOcrInvariants(http.ocr.result.val.body.json.v))
          => ocr_response = http.ocr.result.val.body.json

\* a run that refused a response whose second page has height 0
C17_Witness ==
    /\ pc = "exited"
    /\ OcrAnswerParsed
    /\ Len(http.ocr.result.val.body.json.v.pages) = MaxPages
    /\ http.ocr.result.val.body.json.v.pages[MaxPages].dimensions.height = 0
    /\ ~ocr_response.some
    /\ exitCode = Some(2)

\* -------------------------------------------------------------- FileUpload
\* C18: a FileUpload returned as valid has leading bytes of the format of
\* its MIME type, and a file whose leading bytes announce another format than
\* its extension never becomes a FileUpload: the run stops before the size
\* check and sends nothing
C18_MagicMatchesMime ==
    /\ file_upload.some => MagicMime(disk.doc.head) = Some(file_upload.v.mime_type)
    /\ MagicContradictsExtension =>
          /\ file_upload = None
          /\ pc \notin {"check_size", "create_client", "upload_begin", "upload_send"}
          /\ wire = <<>>

\* ------------------------------------------------------- upload status
\* the upload endpoint answered 2xx with a document that parsed, and
\* upload_file has returned
UploadAnswerParsed ==
    /\ pc \notin {"upload_send", "upload_parse"}
    /\ IsOk(http.upload.result)
    /\ http.upload.result.val.body.readable
    /\ http.upload.result.val.body.json.some

\* a parsed receipt with status "error" that passes every other check
ErrorStatusReceipt ==
    /\ UploadAnswerParsed
    /\ http.upload.result.val.body.json.v.status = Some("error")
    /\ IsOk(FileUploadResponse_validate([http.upload.result.val.body.json.v EXCEPT !.status = None]))

\* C19: a 2xx upload response with status "error" that is otherwise valid
\* is returned as the receipt of the upload step, and the OCR request is then
\* built and sent with the id of that receipt
C19_ErrorStatusDoesNotFail ==
    ErrorStatusReceipt =>
        /\ upload_response = http.upload.result.val.body.json
        /\ pc # "ocr_begin" =>
              /\ http.ocr.request.some
              /\ http.ocr.request.v.body.json.document.file_id = upload_response.v.id
        /\ pc \notin {"ocr_begin", "ocr_send"} =>
              \E i \in DOMAIN wire :
                  /\ IsOcrRequest(wire[i])
                  /\ wire[i].body.json.document.file_id = upload_response.v.id

\* a finished run whose receipt had status "error" and whose OCR succeeded
C19_Witness ==
    /\ pc = "exited"
    /\ ErrorStatusReceipt
    /\ ocr_response.some
    /\ exitCode = Some(0)
    /\ \E i \in DOMAIN wire : IsOcrRequest(wire[i]) /\ wire[i].body.json.document.file_id = <<"f", "-", "2">>

\* ------------------------------------------------------ order of checks
\* the run ended with an error of one of the categories
EndedWith(categories) == IsErr(result) /\ error_type(result.err) \in categories

\* C20: the earliest failing check of the pipeline decides the category: an
\* empty path ends the run with a validation error, a path that does not
\* exist with a file_io error, and an invalid file with one of the two,
\* whatever the credentials are
C20_EarliestCheckDecides ==
    (pc = "exited" /\ OcrRun /\ args.file.some) =>
        /\ args.file.v = <<>> => EndedWith({"validation"})
        /\ (args.file.v # <<>> /\ ~disk.doc.exists) => EndedWith({"file_io"})
        /\ (args.file.v # <<>> /\ LocalFileInvalid) => EndedWith({"file_io", "validation"})

\* the part of the above that holds: an empty path is a validation error,
\* and once the configuration has passed its validation a missing file is
\* a file_io error and an invalid one a file_io or validation error
EarliestFileCheckDecides ==
    (pc = "exited" /\ OcrRun /\ args.file.some) =>
        /\ args.file.v = <<>> => EndedWith({"validation"})
        /\ (args.file.v # <<>> /\ ~disk.doc.exists /\ config.some /\ IsOk(Config_validate(config.v)))
              => EndedWith({"file_io"})
        /\ (args.file.v # <<>> /\ (LocalFileInvalidButMagic \/ NoKnownMagic)
                /\ config.some /\ IsOk(Config_validate(config.v)))
              => EndedWith({"file_io", "validation"})

\* ------------------------------------------------------ configuration layers
\* the configuration file the run reads
ConfigFileRead == IF args.config.some THEN disk.custom_toml ELSE disk.default_toml

\* the value of a setting below the flag and the environment: the file's if
\* there is a file that parses, the default otherwise
FromFileOrDefault(field) ==
    IF ConfigFileRead.exists /\ ConfigFileRead.toml.some THEN ConfigFileRead.toml.v[field]
    ELSE Config_default[field]

\* flag, then environment variable, then file, then default
Layered(flag, variable, field) ==
    IF flag.some THEN flag.v
    ELSE IF variable.some THEN variable.v
    ELSE FromFileOrDefault(field)

\* C21: the effective api_key and api_base_url are the flag if given,
\* otherwise the environment variable if set, otherwise the value of the
\* configuration file, otherwise the default
C21_FlagEnvFileDefault ==
    config.some =>
        /\ config.v.api_key = Layered(args.api_key, env.API_KEY, "api_key")
        /\ config.v.api_base_url = Layered(args.api_base_url, env.API_BASE_URL, "api_base_url")

\* the part of the above that holds: the api_key is layered, and an
\* api_base_url given as a flag wins over the file
ApiKeyLayered ==
    config.some =>
        /\ config.v.api_key = Layered(args.api_key, env.API_KEY, "api_key")
        /\ args.api_base_url.some => config.v.api_base_url = args.api_base_url.v

\* ------------------------------------------------------------ run outcome
\* exactly one of success data and error, in agreement with the flag
ExactlyOneOfDataOrError(o) ==
    \/ o.success /\ o.data.some /\ ~o.error.some
    \/ ~o.success /\ ~o.data.some /\ o.error.some

\* C22: CLIOutput::validate accepts an output exactly when it is (success,
\* data, no error) or (failure, no data, error), and rejects every other
\* combination with a validation error
C22_ExactlyOneOfDataOrError ==
    Called("CLIOutput_validate") =>
        /\ IsOk(ret.v) <=> ExactlyOneOfDataOrError(call.v.arg)
        /\ ~IsOk(ret.v) => (IsErr(ret.v) /\ ret.v.err.kind = "Validation")

\* an output with success = false that carries data and no error was refused
C22_Witness ==
    /\ Called("CLIOutput_validate")
    /\ ~call.v.arg.success /\ call.v.arg.data.some /\ ~call.v.arg.error.some
    /\ IsErr(ret.v)

\* ------------------------------------------------------- status to error
\* C23: from_http_status gives the Api error, of exit code 5, for every 4xx
\* and every 5xx status, and the Internal error for every other status
C23_StatusToApiOrInternal ==
    Called("from_http_status") =>
        LET st == call.v.arg.status IN
        IF st >= 400 /\ st <= 599
        THEN ret.v.kind = "Api" /\ exit_code(ret.v) = 5
        ELSE ret.v.kind = "Internal"

\* the part of the above that holds: 5xx gives Api with exit code 5 and a
\* status outside 400-599 gives Internal; 4xx gives Validation with exit code 2
StatusToErrorAsCoded ==
    Called("from_http_status") =>
        LET st == call.v.arg.status IN
        /\ (st >= 500 /\ st <= 599) => (ret.v.kind = "Api" /\ exit_code(ret.v) = 5)
        /\ (st >= 400 /\ st <= 499) => (ret.v.kind = "Validation" /\ exit_code(ret.v) = 2)
        /\ (st < 400 \/ st > 599) => ret.v.kind = "Internal"

\* ------------------------------------------------------------ upload body
UploadsOnWire == {i \in DOMAIN wire : IsUploadRequest(wire[i])}

\* C24: the body of an upload is built in memory exactly when the file has
\* at most 50 MiB, and every attempt then sends the same buffered request;
\* above 50 MiB every attempt streams from a reader opened for that attempt,
\* which no other attempt uses
C24_FreshReaderPerAttempt ==
    \A i \in UploadsOnWire :
        /\ wire[i].body.source = "memory" <=> file_upload.v.file_size <= 50 * MiB
        /\ wire[i].body.source = "memory" =>
              /\ wire[i].body.reader = 0
              /\ \A j \in UploadsOnWire : wire[j] = wire[i]
        /\ wire[i].body.source = "stream" =>
              /\ wire[i].body.reader > 0
              /\ wire[i].body.reader <= http.upload.opens
              /\ \A j \in UploadsOnWire : j # i => wire[j].body.reader # wire[i].body.reader

\* a file above 50 MiB whose upload was attempted three times
C24_Witness ==
    /\ file_upload.some /\ file_upload.v.file_size > 50 * MiB
    /\ Cardinality(UploadsOnWire) = 3
    /\ \A i \in UploadsOnWire : wire[i].body.source = "stream"

\* a file of at most 50 MiB whose upload was attempted three times
BufferedRetried ==
    /\ file_upload.some /\ file_upload.v.file_size <= 50 * MiB
    /\ Cardinality(UploadsOnWire) = 3

\* ------------------------------------------------------------- exhaustion
\* the loop used every attempt it has and failed
Exhausted ==
    /\ Called("execute_with_retry")
    /\ ret.v.attempts = MAX_RETRIES + 1
    /\ IsErr(ret.v.result)

LastErrUnchanged ==
    /\ (Exhausted /\ IsErr(call.v.arg[MAX_RETRIES + 1])) => ret.v.result = call.v.arg[MAX_RETRIES + 1]
    /\ \A step \in Steps :
          (LoopReturned(step) /\ IsErr(http[step].result))
              => http[step].result = request_fn(http[step].last.v)

\* ------------------------------------------------------------ retry delays
\* d is a delay for retry n under policy p: at least base * 2^(n-1) less the
\* jitter, and at most the cap
WithinPolicy(p, n, d) ==
    /\ 100 * d >= p.base_delay_ms * Pow2(n - 1) * (100 - p.jitter_percent)
    /\ d <= p.max_delay_ms

\* C26: the delay the retry loop waits before retry n is base * 2^(n-1)
\* clamped to the cap, within the jitter, for the base, cap and jitter of the
\* configured retry_policy; successive delays do not decrease beyond jitter
C26_DelaysFollowPolicy ==
    \A step \in Steps :
        LET delays == http[step].delays
            p == config.v.retry_policy
        IN  \A n \in DOMAIN delays :
                /\ WithinPolicy(p, n, delays[n])
                /\ n > 1 => delays[n] * (100 + p.jitter_percent)
                                >= delays[n - 1] * (100 - p.jitter_percent)

\* what holds of the loop: the delay before retry n is 1000 * 2^(n-1) ms
\* whatever the policy says, which is within the default policy
DelaysAreConstantBackoff ==
    \A step \in Steps : \A n \in DOMAIN http[step].delays :
        /\ http[step].delays[n] = BASE_DELAY_MS * Pow2(n - 1)
        /\ WithinPolicy(RetryPolicy_default, n, http[step].delays[n])

\* what holds of calculate_delay: never above the cap, and at least the
\* smaller of the cap and the exponential delay less its jitter
CalculateDelayWithinCap ==
    (Called("calculate_delay") /\ call.v.arg.attempt >= 1) =>
        LET p == call.v.arg.policy
            n == call.v.arg.attempt
        IN  /\ ret.v <= p.max_delay_ms
            /\ ret.v >= 1
            /\ p.exponential_backoff =>
                  \/ ret.v = p.max_delay_ms
                  \/ 100 * ret.v >= p.base_delay_ms * Pow2(n - 1) * (100 - p.jitter_percent)

\* ============================================================ cache on its own
\* a Cache is constructed and used; no run of main
CacheInit ==
    /\ pc = "cache"
    /\ args = NoArgs
    /\ env = NoEnv
    /\ disk = [doc |-> F_missing, custom_toml |-> T_absent, default_toml |-> T_absent]
    /\ cli = None
    /\ config = None
    /\ file_upload = None
    /\ client = None
    /\ http = [upload |-> StepInit, ocr |-> StepInit]
    /\ wire = <<>>
    /\ upload_response = None
    /\ ocr_response = None
    /\ result = Pending
    /\ stdout = <<>>
    /\ stderr = <<>>
    /\ exitCode = None
    /\ call = None
    /\ ret = None
    /\ \E ttl \in DefaultTtls, m \in 0..MaxEntries : cache = Cache_new(ttl, m)
    /\ now = 0

\* Cache::put; call keeps the entries the cache held before and the instant
CachePut ==
    /\ pc = "cache"
    /\ \E key \in Keys, value \in Values :
         \E entries \in put(cache, key, value, now) :
            /\ cache' = [cache EXCEPT !.entries = entries]
            /\ call' = Some([fn |-> "put", key |-> key, value |-> value, before |-> cache.entries, at |-> now])
            /\ ret' = Some(Ok(TRUE))
    /\ UNCHANGED <<process, now>>

\* Cache::put_with_ttl
CachePutWithTtl ==
    /\ pc = "cache"
    /\ \E key \in Keys, value \in Values, ttl \in Ttls :
         \E entries \in put_with_ttl(cache, key, value, ttl, now) :
            /\ cache' = [cache EXCEPT !.entries = entries]
            /\ call' = Some([fn |-> "put_with_ttl", key |-> key, value |-> value,
                             before |-> cache.entries, at |-> now])
            /\ ret' = Some(Ok(TRUE))
    /\ UNCHANGED <<process, now>>

\* Cache::get
CacheGet ==
    /\ pc = "cache"
    /\ \E key \in Keys :
         /\ cache' = [cache EXCEPT !.entries = get(cache, key, now).entries]
         /\ call' = Some([fn |-> "get", key |-> key])
         /\ ret' = Some(get(cache, key, now).value)
    /\ UNCHANGED <<process, now>>

\* Cache::remove
CacheRemove ==
    /\ pc = "cache"
    /\ \E key \in Keys :
         /\ cache' = [cache EXCEPT !.entries = remove(cache, key).entries]
         /\ call' = Some([fn |-> "remove", key |-> key])
         /\ ret' = Some(remove(cache, key).value)
    /\ UNCHANGED <<process, now>>

\* Cache::clear
CacheClear ==
    /\ pc = "cache"
    /\ cache' = [cache EXCEPT !.entries = clear(cache)]
    /\ call' = Some([fn |-> "clear"])
    /\ ret' = None
    /\ UNCHANGED <<process, now>>

\* time passes between two operations
Tick ==
    /\ pc = "cache"
    /\ now < MaxTime
    /\ now' = now + 1
    /\ UNCHANGED <<process, call, ret, cache>>

CacheNext ==
    \/ CachePut
    \/ CachePutWithTtl
    \/ CacheGet
    \/ CacheRemove
    \/ CacheClear
    \/ Tick

CacheSpec == CacheInit /\ [][CacheNext]_vars

\* ----------------------------------------------------------- cache claims
\* the keys of the entries that get would return at instant t
Retrievable(entries, t) == {k \in Keys : entries[k].some /\ ~is_expired(entries[k].v, t)}

\* the last operation put a key that was absent into a cache that held
\* max_entries entries, none expired at that instant
PutNewKeyAtCapacity ==
    /\ call.some /\ call.v.fn \in {"put", "put_with_ttl"}
    /\ ~call.v.before[call.v.key].some
    /\ len(call.v.before) = cache.max_entries
    /\ Retrievable(call.v.before, call.v.at) = {k \in Keys : call.v.before[k].some}

\* the keys the last put removed
Evicted == {k \in Keys : call.v.before[k].some /\ ~cache.entries[k].some}

\* exactly one entry went, one of earliest creation; at the instant of the
\* put the others are retrievable with their values, and so is the new key
OldestEvictedOnly ==
    /\ Cardinality(Evicted) = 1
    /\ \A k \in Evicted : \A j \in Keys :
          call.v.before[j].some => call.v.before[k].v.created_at <= call.v.before[j].v.created_at
    /\ \A k \in Keys \ Evicted :
          call.v.before[k].some => (cache.entries[k] = call.v.before[k] /\ k \in Retrievable(cache.entries, call.v.at))
    /\ call.v.key \in Retrievable(cache.entries, call.v.at)
    /\ cache.entries[call.v.key].v.data = call.v.value

C28_SizeWithinMax == len(cache.entries) <= cache.max_entries

\* the part of the above that holds: a cache of max_entries >= 1 never holds
\* more than max_entries entries
SizeWithinPositiveMax == cache.max_entries >= 1 => len(cache.entries) <= cache.max_entries

\* --------------------------------------------------------- when to retry
\* the step has made an attempt
Attempted(step) == http[step].last.some

\* the loop of the step goes on to another attempt
GoesOn(step) == Attempted(step) /\ http[step].result = Pending

\* what the producer of the step returned for the last attempt
LastOutcome(step) == request_fn(http[step].last.v)

\* the last attempt failed with an Api error that speaks of a rate limit
FailedWithRateLimitText(step) ==
    /\ IsErr(LastOutcome(step))
    /\ LastOutcome(step).err.kind = "Api"
    /\ \/ Contains(LastOutcome(step).err.msg, "429")
       \/ Contains(LastOutcome(step).err.msg, "rate limit")

Plain429EndsLoop ==
    /\ LoopReturned("upload")
    /\ http.upload.attempt = 1
    /\ LastStatus("upload") = 429
    /\ ~FailedWithRateLimitText("upload")

\* ------------------------------------------------------------ unreachable
\* C30: for every sequence of outcomes of the attempts the loop of
\* execute_with_retry returns Ok or Err on or before the fourth attempt, so
\* the unreachable!() after the loop is never reached
C30_LoopAlwaysReturns ==
    Called("execute_with_retry") =>
        /\ ret.v.result.tag \in {"ok", "err"}
        /\ ret.v.attempts >= 1
        /\ ret.v.attempts <= 4

\* four attempts that each failed with a rate limit, and four that each got
\* a 429 response: the loop returned an error on the fourth
C30_Witness ==
    /\ Called("execute_with_retry")
    /\ \/ \A k \in 1..4 : IsErr(call.v.arg[k]) /\ IsRateLimitError(call.v.arg[k].err)
       \/ \A k \in 1..4 : IsOk(call.v.arg[k]) /\ call.v.arg[k].val.status = 429
    /\ ret.v.attempts = 4
    /\ IsErr(ret.v.result)

\* the same in a run of the program: a step that is still in its loop has
\* made at most three attempts
StepInLoopHasAttemptsLeft ==
    \A step \in Steps :
        (pc = step \o "_send" /\ http[step].result = Pending) => http[step].attempt <= MAX_RETRIES

====
